---- MODULE Spec2Model ----
(***************************************************************************)
(* Model of ochat/config/model_config.py: the ModelConfig record, the      *)
(* registry MODEL_CONFIG_MAP, the helpers _v2_conditional_prefix and       *)
(* _v2_group, and ModelConfig.generate_conversation_template, executed     *)
(* one source step at a time (BOS, system, per-turn prefix, per-turn       *)
(* content, group, return).                                                *)
(***************************************************************************)
EXTENDS Integers, Sequences, FiniteSets, TLC

\* ---- bounds of the model ------------------------------------------------
MaxTurns == 2        \* longest message_list explored
MaxCalls == 2        \* calls made on one configuration

\* ---- Python values ------------------------------------------------------
None   == "<None>"       \* Python None for Optional[str] / Optional[Callable]
Absent == "<absent>"     \* the key "value" is not in the message dict

\* truthiness of an Optional[str], as tested by `if self.bos_token:`
Truthy(s) == s /= None /\ s /= ""

Roles  == {"human", "gpt", "system"}
Values == {"hi"}

\* message_props: None, or a dict carrying the is_gpt4 flag
NoProps == [present |-> FALSE, is_gpt4 |-> FALSE]
Props   == {NoProps, [present |-> TRUE, is_gpt4 |-> TRUE],
                     [present |-> TRUE, is_gpt4 |-> FALSE]}

Turns == [from : Roles, value : Values \cup {Absent}]

MessageLists == UNION {[1..n -> Turns] : n \in 0..MaxTurns}

\* ---- the caller-supplied tokenizer --------------------------------------
\* text -> sequence of token ids; "yo"-like collisions are kept on purpose:
\* a value may tokenize to the same ids as a prefix.
tokenize_fn(text) ==
    CASE text = ""                -> <<>>
      [] text = "hi"              -> <<10>>
      [] text = "You are helpful" -> <<20, 21>>
      [] text = "Human: "         -> <<30, 31>>
      [] text = "Assistant: "     -> <<10>>
      [] text = "User:"           -> <<40>>
      [] text = "Assistant:"      -> <<41>>
      [] text = "Assistant GPT4:" -> <<41, 44>>
      [] text = "Assistant GPT3:" -> <<41, 43>>
      [] OTHER                    -> <<0>>

\* special-token string -> exactly one id
tokenize_special_fn(s) ==
    CASE s = "<s>"             -> 1
      [] s = "<|end_of_turn|>" -> 2
      [] OTHER                 -> 0

\* ---- helpers of the module ----------------------------------------------
Returned(v) == [raise |-> None, ret |-> v]
Raised(e)   == [raise |-> e, ret |-> ""]

_v2_conditional_prefix_gpt3(from_role, props) ==
    IF from_role = "human" THEN Returned("User:")
    ELSE IF from_role = "gpt" THEN
        IF ~props.present THEN Returned("Assistant GPT3:")
        ELSE Returned(IF props.is_gpt4 THEN "Assistant GPT4:" ELSE "Assistant GPT3:")
    ELSE Raised("NotImplementedError")

_v2_conditional_prefix(from_role, props) ==
    IF from_role = "human" THEN Returned("User:")
    ELSE IF from_role = "gpt" THEN
        IF ~props.present THEN Returned("Assistant GPT4:")
        ELSE Returned(IF props.is_gpt4 THEN "Assistant GPT4:" ELSE "Assistant GPT3:")
    ELSE Raised("NotImplementedError")

_v2_group_none0(props) ==
    IF ~props.present THEN 0
    ELSE IF props.is_gpt4 THEN 1 ELSE 0

_v2_group_swapped(props) ==
    IF ~props.present THEN 1
    ELSE IF props.is_gpt4 THEN 0 ELSE 1

_v2_group(props) ==
    IF ~props.present THEN 1
    ELSE IF props.is_gpt4 THEN 1 ELSE 0

\* a lookup that falls back to "" like dict.get(role, "")
DictLookupDefault(table, role) ==
    IF role \in DOMAIN table THEN Returned(table[role]) ELSE Returned("")

\* line 53: self.role_prefix[role], KeyError when the role is not a key
DictLookup(table, role) ==
    IF role \in DOMAIN table THEN Returned(table[role]) ELSE Raised("KeyError")

\* role_prefix is Union[dict, Callable]
TablePrefix(t)  == [callable |-> FALSE, table |-> t]
CallablePrefix  == [callable |-> TRUE,  table |-> [r \in {} |-> ""]]

HumanAssistant == [r \in {"human", "gpt"} |->
                     IF r = "human" THEN "Human: " ELSE "Assistant: "]
UserAssistant  == [r \in {"human", "gpt"} |->
                     IF r = "human" THEN "User:" ELSE "Assistant:"]
HumanOnly      == [r \in {"human"} |-> "Human: "]

ModelConfig(name, system, role_prefix, ai_role, eot_token, bos_token, group_fn) ==
    [name |-> name, system |-> system, role_prefix |-> role_prefix,
     ai_role |-> ai_role, eot_token |-> eot_token, bos_token |-> bos_token,
     group_fn |-> group_fn]

MODEL_CONFIG_MAP ==
    [k \in {"openchat_8192", "openchat", "openchat_v2", "opencoder"} |->
       CASE k = "openchat_8192" ->
              ModelConfig("OpenChat_8192", None, TablePrefix(HumanAssistant),
                          "gpt", "<|end_of_turn|>", "<s>", None)
         [] k = "openchat" ->
              ModelConfig("OpenChat", None, TablePrefix(HumanAssistant),
                          "gpt", "<|end_of_turn|>", "<s>", None)
         [] k = "openchat_v2" ->
              ModelConfig("OpenChat_v2", None, CallablePrefix,
                          "gpt", "<|end_of_turn|>", "<s>", "_v2_group")
         [] k = "opencoder" ->
              ModelConfig("OpenCoder", None, TablePrefix(UserAssistant),
                          "gpt", "<|end_of_turn|>", None, None)]

\* configurations the dataclass admits beyond the four registered ones
OtherConfigs ==
    { ModelConfig("custom", s, rp, "gpt", "<|end_of_turn|>", b, g) :
        s \in {None, "You are helpful"},
        rp \in {TablePrefix(HumanAssistant), TablePrefix(HumanOnly), CallablePrefix},
        b \in {None, "<s>"},
        g \in {None, "_v2_group"} }
    \cup
    { ModelConfig("custom", "", TablePrefix(HumanAssistant), "gpt",
                  "<|end_of_turn|>", "", None),
      ModelConfig("custom", "You are helpful", TablePrefix(HumanAssistant), "human",
                  "<|end_of_turn|>", "<s>", None),
      ModelConfig("custom", None, CallablePrefix, "human",
                  "<|end_of_turn|>", None, "_v2_group") }

Configs == {MODEL_CONFIG_MAP[k] : k \in DOMAIN MODEL_CONFIG_MAP} \cup OtherConfigs

\* ---- state --------------------------------------------------------------
VARIABLES
    registry,       \* MODEL_CONFIG_MAP as held by the module
    cfg,            \* self
    message_list,   \* argument
    message_props,  \* argument
    tokens, masks,  \* locals, lines 32-33
    idx,            \* loop index (0-based, as enumerate gives it)
    role_prefix,    \* local, lines 51/53
    group,          \* local, line 67
    pc,             \* position in the method
    result,         \* <<>> or the returned tuple <<tokens, masks, group>>
    error,          \* None or the exception that left the method
    ncalls,         \* calls started so far
    origin,         \* history: which step produced each token
    calls,          \* history: invocations of a callable role_prefix in this call
    group_calls     \* history: invocations of group_fn in this call

vars == <<registry, cfg, message_list, message_props, tokens, masks, idx,
          role_prefix, group, pc, result, error, ncalls, origin, calls,
          group_calls>>

inputs == <<registry, cfg, message_list, message_props>>

Init ==
    /\ registry = MODEL_CONFIG_MAP
    /\ cfg \in Configs
    /\ message_list = <<>>
    /\ message_props = NoProps
    /\ tokens = <<>>
    /\ masks = <<>>
    /\ idx = 0
    /\ role_prefix = ""
    /\ group = 0
    /\ pc = "idle"
    /\ result = <<>>
    /\ error = None
    /\ ncalls = 0
    /\ origin = <<>>
    /\ calls = <<>>
    /\ group_calls = 0

Repeat(x, n) == [i \in 1..n |-> x]
Tag(kind, turn, n) == Repeat([kind |-> kind, turn |-> turn], n)

\* head of `for idx, message in enumerate(message_list)`
LoopHead(i) == IF i < Len(message_list) THEN "prefix" ELSE "group"


\* lines 50-53: dispatch on callable(self.role_prefix)
ResolvePrefix(c, from_role, props) ==
    IF c.role_prefix.callable
    THEN _v2_conditional_prefix(from_role, props)
    ELSE DictLookup(c.role_prefix.table, from_role)

\* ---- generate_conversation_template, one step per action ----------------

\* a call that keeps the previous call's lists (as a shared default would)
CallKeepsLists ==
    /\ pc \in {"idle", "done", "error"}
    /\ ncalls < MaxCalls
    /\ \E ml \in MessageLists, p \in Props :
         /\ message_list' = ml
         /\ message_props' = p
    /\ idx' = 0
    /\ role_prefix' = ""
    /\ group' = 0
    /\ pc' = "bos"
    /\ result' = <<>>
    /\ error' = None
    /\ ncalls' = ncalls + 1
    /\ calls' = <<>>
    /\ group_calls' = 0
    /\ UNCHANGED <<registry, cfg, tokens, masks, origin>>

\* lines 31-33: entry, tokens = [], masks = []
Call ==
    /\ pc \in {"idle", "done", "error"}
    /\ ncalls < MaxCalls
    /\ \E ml \in MessageLists, p \in Props :
         /\ message_list' = ml
         /\ message_props' = p
    /\ tokens' = <<>>
    /\ masks' = <<>>
    /\ idx' = 0
    /\ role_prefix' = ""
    /\ group' = 0
    /\ pc' = "bos"
    /\ result' = <<>>
    /\ error' = None
    /\ ncalls' = ncalls + 1
    /\ origin' = <<>>
    /\ calls' = <<>>
    /\ group_calls' = 0
    /\ UNCHANGED <<registry, cfg>>

\* the BOS step without its masks.append
BosNoMask ==
    /\ pc = "bos"
    /\ IF Truthy(cfg.bos_token)
       THEN /\ tokens' = Append(tokens, tokenize_special_fn(cfg.bos_token))
            /\ origin' = origin \o Tag("bos", -1, 1)
            /\ UNCHANGED masks
       ELSE UNCHANGED <<tokens, masks, origin>>
    /\ pc' = "system"
    /\ UNCHANGED <<inputs, idx, role_prefix, group, result, error, ncalls,
                   calls, group_calls>>

\* lines 36-39
Bos ==
    /\ pc = "bos"
    /\ IF Truthy(cfg.bos_token)
       THEN /\ tokens' = Append(tokens, tokenize_special_fn(cfg.bos_token))
            /\ masks' = Append(masks, FALSE)
            /\ origin' = origin \o Tag("bos", -1, 1)
       ELSE UNCHANGED <<tokens, masks, origin>>
    /\ pc' = "system"
    /\ UNCHANGED <<inputs, idx, role_prefix, group, result, error, ncalls,
                   calls, group_calls>>

\* lines 42-45
System ==
    /\ pc = "system"
    /\ IF Truthy(cfg.system)
       THEN LET t == tokenize_fn(cfg.system) \o <<tokenize_special_fn(cfg.eot_token)>>
            IN  /\ tokens' = tokens \o t
                /\ masks' = masks \o Repeat(FALSE, Len(t))
                /\ origin' = origin \o Tag("system", -1, Len(t) - 1)
                                    \o Tag("system_eot", -1, 1)
       ELSE UNCHANGED <<tokens, masks, origin>>
    /\ pc' = LoopHead(0)
    /\ UNCHANGED <<inputs, idx, role_prefix, group, result, error, ncalls,
                   calls, group_calls>>

\* lines 48-57: resolve the role prefix, tokenize it, extend with False masks
Prefix ==
    /\ pc = "prefix"
    /\ LET message == message_list[idx + 1]
           r == ResolvePrefix(cfg, message.from, message_props)
           t == tokenize_fn(r.ret)
       IN  /\ calls' = IF cfg.role_prefix.callable
                       THEN Append(calls, [role |-> message.from,
                                           props |-> message_props,
                                           raise |-> r.raise, ret |-> r.ret])
                       ELSE calls
           /\ IF r.raise /= None
              THEN /\ pc' = "error"
                   /\ error' = r.raise
                   /\ UNCHANGED <<tokens, masks, origin, role_prefix>>
              ELSE /\ role_prefix' = r.ret
                   /\ tokens' = tokens \o t
                   /\ masks' = masks \o Repeat(FALSE, Len(t))
                   /\ origin' = origin \o Tag("prefix", idx, Len(t))
                   /\ pc' = "content"
                   /\ UNCHANGED error
    /\ UNCHANGED <<inputs, idx, group, result, ncalls, group_calls>>

\* the content step marking every turn as a training target
ContentMaskAll ==
    /\ pc = "content"
    /\ LET message == message_list[idx + 1]
       IN  IF message.value /= Absent
           THEN LET v == tokenize_fn(message.value)
                    t == v \o <<tokenize_special_fn(cfg.eot_token)>>
                IN  /\ tokens' = tokens \o t
                    /\ masks' = masks \o Repeat(TRUE, Len(t))
                    /\ origin' = origin \o Tag("value", idx, Len(v))
                                        \o Tag("eot", idx, 1)
                    /\ idx' = idx + 1
                    /\ pc' = LoopHead(idx + 1)
                    /\ UNCHANGED error
           ELSE IF idx = Len(message_list) - 1
                THEN /\ idx' = idx + 1
                     /\ pc' = LoopHead(idx + 1)
                     /\ UNCHANGED <<tokens, masks, origin, error>>
                ELSE /\ pc' = "error"
                     /\ error' = "AssertionError"
                     /\ UNCHANGED <<tokens, masks, origin, idx>>
    /\ UNCHANGED <<inputs, role_prefix, group, result, ncalls, calls, group_calls>>

\* the content step without the end-of-turn token
ContentNoEot ==
    /\ pc = "content"
    /\ LET message == message_list[idx + 1]
       IN  IF message.value /= Absent
           THEN LET v == tokenize_fn(message.value)
                IN  /\ tokens' = tokens \o v
                    /\ masks' = masks \o Repeat(message.from = cfg.ai_role, Len(v))
                    /\ origin' = origin \o Tag("value", idx, Len(v))
                    /\ idx' = idx + 1
                    /\ pc' = LoopHead(idx + 1)
                    /\ UNCHANGED error
           ELSE IF idx = Len(message_list) - 1
                THEN /\ idx' = idx + 1
                     /\ pc' = LoopHead(idx + 1)
                     /\ UNCHANGED <<tokens, masks, origin, error>>
                ELSE /\ pc' = "error"
                     /\ error' = "AssertionError"
                     /\ UNCHANGED <<tokens, masks, origin, idx>>
    /\ UNCHANGED <<inputs, role_prefix, group, result, ncalls, calls, group_calls>>

\* the content step without the assertion on valueless turns
ContentNoAssert ==
    /\ pc = "content"
    /\ LET message == message_list[idx + 1]
       IN  IF message.value /= Absent
           THEN LET v == tokenize_fn(message.value)
                    t == v \o <<tokenize_special_fn(cfg.eot_token)>>
                IN  /\ tokens' = tokens \o t
                    /\ masks' = masks \o Repeat(message.from = cfg.ai_role, Len(t))
                    /\ origin' = origin \o Tag("value", idx, Len(v))
                                        \o Tag("eot", idx, 1)
                    /\ idx' = idx + 1
                    /\ pc' = LoopHead(idx + 1)
                    /\ UNCHANGED error
           ELSE /\ idx' = idx + 1
                /\ pc' = LoopHead(idx + 1)
                /\ UNCHANGED <<tokens, masks, origin, error>>
    /\ UNCHANGED <<inputs, role_prefix, group, result, ncalls, calls, group_calls>>

\* the content step closing a valueless final turn with an end-of-turn token
ContentEotOnEmpty ==
    /\ pc = "content"
    /\ LET message == message_list[idx + 1]
       IN  IF message.value /= Absent
           THEN LET v == tokenize_fn(message.value)
                    t == v \o <<tokenize_special_fn(cfg.eot_token)>>
                IN  /\ tokens' = tokens \o t
                    /\ masks' = masks \o Repeat(message.from = cfg.ai_role, Len(t))
                    /\ origin' = origin \o Tag("value", idx, Len(v))
                                        \o Tag("eot", idx, 1)
                    /\ idx' = idx + 1
                    /\ pc' = LoopHead(idx + 1)
                    /\ UNCHANGED error
           ELSE IF idx = Len(message_list) - 1
                THEN /\ tokens' = Append(tokens, tokenize_special_fn(cfg.eot_token))
                     /\ masks' = Append(masks, FALSE)
                     /\ origin' = origin \o Tag("eot", idx, 1)
                     /\ idx' = idx + 1
                     /\ pc' = LoopHead(idx + 1)
                     /\ UNCHANGED error
                ELSE /\ pc' = "error"
                     /\ error' = "AssertionError"
                     /\ UNCHANGED <<tokens, masks, origin, idx>>
    /\ UNCHANGED <<inputs, role_prefix, group, result, ncalls, calls, group_calls>>

\* lines 59-65: the turn's content, or the assertion on a valueless turn
Content ==
    /\ pc = "content"
    /\ LET message == message_list[idx + 1]
       IN  IF message.value /= Absent
           THEN LET v == tokenize_fn(message.value)
                    t == v \o <<tokenize_special_fn(cfg.eot_token)>>
                IN  /\ tokens' = tokens \o t
                    /\ masks' = masks \o Repeat(message.from = cfg.ai_role, Len(t))
                    /\ origin' = origin \o Tag("value", idx, Len(v))
                                        \o Tag("eot", idx, 1)
                    /\ idx' = idx + 1
                    /\ pc' = LoopHead(idx + 1)
                    /\ UNCHANGED error
           ELSE IF idx = Len(message_list) - 1
                THEN /\ idx' = idx + 1
                     /\ pc' = LoopHead(idx + 1)
                     /\ UNCHANGED <<tokens, masks, origin, error>>
                ELSE /\ pc' = "error"
                     /\ error' = "AssertionError"
                     /\ UNCHANGED <<tokens, masks, origin, idx>>
    /\ UNCHANGED <<inputs, role_prefix, group, result, ncalls, calls, group_calls>>

\* lines 67-69
Group ==
    /\ pc = "group"
    /\ IF cfg.group_fn /= None
       THEN /\ group' = _v2_group(message_props)
            /\ group_calls' = group_calls + 1
       ELSE /\ group' = 0
            /\ UNCHANGED group_calls
    /\ pc' = "return"
    /\ UNCHANGED <<inputs, tokens, masks, idx, role_prefix, result, error,
                   ncalls, origin, calls>>

\* line 71
Return ==
    /\ pc = "return"
    /\ result' = <<tokens, masks, group>>
    /\ pc' = "done"
    /\ UNCHANGED <<inputs, tokens, masks, idx, role_prefix, group, error,
                   ncalls, origin, calls, group_calls>>

Next == Call \/ Bos \/ System \/ Prefix \/ Content \/ Group \/ Return

Spec == Init /\ [][Next]_vars

\* ---- the method as a function of its arguments (lines 31-71) -------------
RECURSIVE TemplateFrom(_, _, _, _, _, _)
TemplateFrom(c, ml, props, i, toks, msks) ==
    IF i >= Len(ml)
    THEN [error |-> None,
          result |-> <<toks, msks,
                       IF c.group_fn /= None THEN _v2_group(props) ELSE 0>>]
    ELSE LET message == ml[i + 1]
             r == ResolvePrefix(c, message.from, props)
             p == tokenize_fn(r.ret)
         IN  IF r.raise /= None
             THEN [error |-> r.raise, result |-> <<>>]
             ELSE IF message.value /= Absent
             THEN LET t == tokenize_fn(message.value)
                             \o <<tokenize_special_fn(c.eot_token)>>
                  IN  TemplateFrom(c, ml, props, i + 1, toks \o p \o t,
                          msks \o Repeat(FALSE, Len(p))
                               \o Repeat(message.from = c.ai_role, Len(t)))
             ELSE IF i = Len(ml) - 1
             THEN TemplateFrom(c, ml, props, i + 1, toks \o p,
                               msks \o Repeat(FALSE, Len(p)))
             ELSE [error |-> "AssertionError", result |-> <<>>]

generate_conversation_template(c, ml, props) ==
    LET b == IF Truthy(c.bos_token)
             THEN <<tokenize_special_fn(c.bos_token)>> ELSE <<>>
        s == IF Truthy(c.system)
             THEN tokenize_fn(c.system) \o <<tokenize_special_fn(c.eot_token)>>
             ELSE <<>>
    IN  TemplateFrom(c, ml, props, 0, b \o s, Repeat(FALSE, Len(b) + Len(s)))


\* ==== properties ==========================================================
Finished == pc \in {"done", "error"}
NTurns   == Len(message_list)
Front(q) == SubSeq(q, 1, Len(q) - 1)
Valued(ml)    == \A i \in DOMAIN ml : ml[i].value /= Absent
Resolvable(c, ml, props) ==
    \A i \in DOMAIN ml : ResolvePrefix(c, ml[i].from, props).raise = None
EotId(c) == tokenize_special_fn(c.eot_token)

\* positions of the output produced by one step of one turn
Positions(kind, turn) ==
    {p \in DOMAIN origin : origin[p].kind = kind /\ origin[p].turn = turn}
Count(kinds) == Cardinality({p \in DOMAIN origin : origin[p].kind \in kinds})

\* the preamble and the per-turn concatenation the specification describes
PreambleTokens(c) ==
    (IF Truthy(c.bos_token) THEN <<tokenize_special_fn(c.bos_token)>> ELSE <<>>)
    \o (IF Truthy(c.system) THEN tokenize_fn(c.system) \o <<EotId(c)>> ELSE <<>>)

RECURSIVE TurnTokens(_, _, _)
TurnTokens(c, ml, props) ==
    IF ml = <<>> THEN <<>>
    ELSE LET m == ml[Len(ml)]
         IN  TurnTokens(c, Front(ml), props)
               \o tokenize_fn(ResolvePrefix(c, m.from, props).ret)
               \o tokenize_fn(m.value) \o <<EotId(c)>>

\* ---- C1 ------------------------------------------------------------------
\* C1: tokens and masks have the same length after every step of the
\* assembly (BOS, system, each prefix, each content), and in the returned
\* tuple.
C1_SameLength ==
    /\ Len(tokens) = Len(masks)
    /\ pc = "done" => Len(result[1]) = Len(result[2])

C1_Witness ==
    /\ pc = "done"
    /\ Truthy(cfg.bos_token) /\ Truthy(cfg.system) /\ cfg.role_prefix.callable
    /\ NTurns = 2 /\ Valued(message_list)
    /\ Len(result[1]) = Len(result[2]) /\ Len(result[1]) >= 8

\* ---- C2 ------------------------------------------------------------------
\* C2: in the returned masks a position is True exactly when its token was
\* produced by the content step (value tokens and their end-of-turn token)
\* of a turn whose role is ai_role; BOS, system, every prefix and non-AI
\* content are False.
C2_MaskIffAiContent ==
    pc = "done" =>
        /\ Len(origin) = Len(result[2])
        /\ \A p \in DOMAIN origin :
             result[2][p] = (/\ origin[p].kind \in {"value", "eot"}
                             /\ message_list[origin[p].turn + 1].value /= Absent
                             /\ message_list[origin[p].turn + 1].from = cfg.ai_role)

C2_Witness ==
    /\ pc = "done"
    /\ Truthy(cfg.bos_token) /\ Truthy(cfg.system)
    /\ \E p \in DOMAIN origin : origin[p].kind = "value" /\ result[2][p]
    /\ \E p \in DOMAIN origin : origin[p].kind = "value" /\ ~result[2][p]
    /\ \E p \in DOMAIN origin :
         /\ origin[p].kind = "prefix" /\ ~result[2][p]
         /\ message_list[origin[p].turn + 1].from = cfg.ai_role

\* ---- C3 ------------------------------------------------------------------
\* C3: when every turn carries a value, the returned tokens are exactly
\* [bos] ++ tok(system) ++ [eot] ++ for each turn in order
\* tok(prefix) ++ tok(value) ++ [eot]; the BOS step contributes position 0
\* only; an empty message_list yields the preamble alone.
C3_ExactConcatenation ==
    (pc = "done" /\ Valued(message_list)) =>
        /\ result[1] = PreambleTokens(cfg)
                         \o TurnTokens(cfg, message_list, message_props)
        /\ Positions("bos", -1) = (IF Truthy(cfg.bos_token) THEN {1} ELSE {})
        /\ message_list = <<>> => result[1] = PreambleTokens(cfg)

C3_Witness ==
    /\ pc = "done"
    /\ NTurns = 2 /\ Valued(message_list)
    /\ message_list[1].from /= message_list[2].from
    /\ Truthy(cfg.bos_token) /\ Truthy(cfg.system)
    /\ result[1] = PreambleTokens(cfg)
                     \o TurnTokens(cfg, message_list, message_props)


\* ---- C4 ------------------------------------------------------------------
ValuelessBeforeLast ==
    {i \in 1..(NTurns - 1) : message_list[i].value = Absent}
LastValueless ==
    NTurns > 0 /\ message_list[NTurns].value = Absent
Min(S) == CHOOSE x \in S : \A y \in S : x <= y
Unresolvable ==
    {i \in DOMAIN message_list :
        ResolvePrefix(cfg, message_list[i].from, message_props).raise /= None}
RaiseOf(i) == ResolvePrefix(cfg, message_list[i].from, message_props).raise

\* C4 as stated: a valueless turn before the last index always ends the call
\* with the assertion violation; a valueless turn at the last index (all
\* other turns being in order) raises nothing and no output position stems
\* from that turn.
C4_AsStated ==
    Finished =>
        /\ ValuelessBeforeLast /= {} => error = "AssertionError"
        /\ (/\ LastValueless
            /\ Valued(Front(message_list))
            /\ Unresolvable = {})
           => /\ error = None
              /\ \A p \in DOMAIN origin : origin[p].turn /= NTurns - 1

\* C4 amended: a valueless turn before the last index ends the call without
\* a result: with the assertion violation when the roles of all turns up to
\* and including the first such turn resolve, with the role-resolution error
\* of the first unresolvable turn otherwise. A valueless turn at the last
\* index raises nothing, and contributes exactly its role-prefix tokens, all
\* masked False: no content token and no end-of-turn token.
C4_ValuelessTurn ==
    Finished =>
        /\ ValuelessBeforeLast /= {} =>
             LET k == Min(ValuelessBeforeLast)
                 bad == {i \in Unresolvable : i <= k}
             IN  /\ pc = "error"
                 /\ result = <<>>
                 /\ error = IF bad = {} THEN "AssertionError" ELSE RaiseOf(Min(bad))
        /\ (/\ LastValueless
            /\ Valued(Front(message_list))
            /\ Unresolvable = {})
           => /\ pc = "done"
              /\ error = None
              /\ LET mine == {p \in DOMAIN origin : origin[p].turn = NTurns - 1}
                     pre  == tokenize_fn(role_prefix)
                 IN  /\ mine = Positions("prefix", NTurns - 1)
                     /\ mine = (Len(result[1]) - Len(pre) + 1)..Len(result[1])
                     /\ SubSeq(result[1], Len(result[1]) - Len(pre) + 1,
                               Len(result[1])) = pre
                     /\ \A p \in mine : ~result[2][p]
                     /\ role_prefix = ResolvePrefix(cfg, message_list[NTurns].from,
                                                    message_props).ret

C4_Witness ==
    /\ pc = "error" /\ error = "AssertionError"
    /\ NTurns = 2 /\ message_list[1].value = Absent
    /\ Len(tokens) > 0

C4_WitnessLast ==
    /\ pc = "done" /\ LastValueless /\ NTurns = 2
    /\ Positions("prefix", 1) /= {}

\* ---- C5 ------------------------------------------------------------------
\* C5: the returned group is 0 when no group function is configured; with
\* _v2_group configured it is 1 when message_props is None or its is_gpt4
\* flag is true and 0 otherwise; message_list plays no part.
C5_Group ==
    pc = "done" =>
        result[3] = IF cfg.group_fn = None THEN 0
                    ELSE IF ~message_props.present THEN 1
                    ELSE IF message_props.is_gpt4 THEN 1 ELSE 0

C5_Witness ==
    /\ pc = "done"
    /\ cfg.group_fn /= None
    /\ ~message_props.present
    /\ NTurns > 0
    /\ result[3] = 1

\* ---- C6 ------------------------------------------------------------------
UnknownRoleTurns ==
    {i \in DOMAIN message_list :
        message_list[i].from \notin DOMAIN cfg.role_prefix.table}

\* C6 as stated: with a fixed table, any turn whose role is not a key ends
\* the call with a lookup error, no result and no group_fn invocation.
C6_AsStated ==
    (Finished /\ ~cfg.role_prefix.callable /\ UnknownRoleTurns /= {}) =>
        /\ error = "KeyError"
        /\ result = <<>>
        /\ group_calls = 0

\* C6 amended: with a fixed table, any turn whose role is not a key makes
\* the call fail with no result and no group_fn invocation; the error is the
\* lookup error unless a turn before the first such turn carries no value,
\* in which case the assertion violation is raised first.
C6_UnknownRole ==
    (pc /= "idle" /\ ~cfg.role_prefix.callable /\ UnknownRoleTurns /= {}) =>
        /\ pc \notin {"group", "return", "done"}
        /\ result = <<>>
        /\ group_calls = 0
        /\ Finished =>
             LET j == Min(UnknownRoleTurns)
             IN  /\ pc = "error"
                 /\ error = IF \E i \in 1..(j - 1) : message_list[i].value = Absent
                            THEN "AssertionError" ELSE "KeyError"

C6_Witness ==
    /\ pc = "error" /\ error = "KeyError"
    /\ ~cfg.role_prefix.callable
    /\ cfg.group_fn /= None
    /\ NTurns = 2 /\ Min(UnknownRoleTurns) = 2
    /\ Len(tokens) > 0 /\ result = <<>>

\* ---- C7 ------------------------------------------------------------------
\* C7: a callable role_prefix is invoked once per turn, in turn order, with
\* (the turn's role, message_props); _v2_conditional_prefix gives "User:"
\* for human, "Assistant GPT4:" for gpt when message_props is None or is_gpt4
\* is true and "Assistant GPT3:" otherwise, and for any other role raises
\* NotImplementedError, which ends the call without a result.
C7_ConditionalPrefix ==
    /\ ~cfg.role_prefix.callable => calls = <<>>
    /\ cfg.role_prefix.callable =>
         /\ Len(calls) = (IF pc \in {"bos", "system", "idle"} THEN 0
                          ELSE IF pc \in {"content", "error"} THEN idx + 1
                          ELSE idx)
         /\ pc = "done" => Len(calls) = NTurns
         /\ \A i \in DOMAIN calls :
              /\ calls[i].role = message_list[i].from
              /\ calls[i].props = message_props
              /\ calls[i].role = "human" =>
                   calls[i].raise = None /\ calls[i].ret = "User:"
              /\ calls[i].role = "gpt" =>
                   /\ calls[i].raise = None
                   /\ calls[i].ret =
                        IF ~message_props.present \/ message_props.is_gpt4
                        THEN "Assistant GPT4:" ELSE "Assistant GPT3:"
              /\ calls[i].role \notin {"human", "gpt"} =>
                   /\ calls[i].raise = "NotImplementedError"
                   /\ i = Len(calls)
                   /\ pc = "error" /\ error = "NotImplementedError"
                   /\ result = <<>>
         /\ pc = "content" => role_prefix = calls[idx + 1].ret

C7_Witness ==
    /\ cfg.role_prefix.callable
    /\ pc = "error" /\ error = "NotImplementedError"
    /\ Len(calls) = 2
    /\ calls[1].role = "gpt" /\ calls[1].ret = "Assistant GPT4:"
    /\ ~message_props.present


\* ---- C8 ------------------------------------------------------------------
\* C8: no step of a call changes the configuration, the registry,
\* message_list or message_props, and the outcome of every call, first or
\* later, after a success or after a failure, is the one the method gives
\* for that call's own arguments and the configuration.
C8_Outcome ==
    Finished =>
        [error |-> error, result |-> result]
          = generate_conversation_template(cfg, message_list, message_props)

C8_Frame ==
    /\ cfg' = cfg
    /\ registry' = registry
    /\ pc /= "idle" /\ ~Finished =>
         message_list' = message_list /\ message_props' = message_props

C8_Stateless ==
    /\ [](registry = MODEL_CONFIG_MAP)
    /\ []C8_Outcome
    /\ [][C8_Frame]_vars

C8_Witness ==
    /\ ncalls = 2
    /\ pc = "done"
    /\ NTurns = 2
    /\ Len(result[1]) >= 4

\* ---- C9 ------------------------------------------------------------------
ValuedTurns == {i \in DOMAIN message_list : message_list[i].value /= Absent}

\* C9: when the last turn has no value and the call returns, the output is
\* the output for message_list without its last turn, followed by exactly
\* the tokens of the last turn's role prefix, masked False, with no
\* end-of-turn token after them; the end-of-turn tokens emitted number the
\* valued turns, plus one when a system prompt is configured.
C9_CompletionPrompt ==
    pc = "done" =>
        /\ Count({"eot", "system_eot"})
             = Cardinality(ValuedTurns) + (IF Truthy(cfg.system) THEN 1 ELSE 0)
        /\ LastValueless =>
             LET shorter == generate_conversation_template(
                                cfg, Front(message_list), message_props)
                 last == message_list[NTurns]
                 pre  == tokenize_fn(
                            ResolvePrefix(cfg, last.from, message_props).ret)
             IN  /\ shorter.error = None
                 /\ result[1] = shorter.result[1] \o pre
                 /\ result[2] = shorter.result[2] \o Repeat(FALSE, Len(pre))
                 /\ result[3] = shorter.result[3]
                 /\ origin[Len(origin)].kind = "prefix"

C9_Witness ==
    /\ pc = "done"
    /\ NTurns = 2 /\ LastValueless
    /\ message_list[2].from = "gpt" /\ message_list[1].from = "human"
    /\ Truthy(cfg.system)
    /\ Count({"eot", "system_eot"}) = 2

\* ---- C10 -----------------------------------------------------------------
OpenChatV2 == MODEL_CONFIG_MAP["openchat_v2"]
GptTurns == {i \in DOMAIN message_list : message_list[i].from = "gpt"}

\* the tokens the prefix step of turn i (1-based) put into the output
PrefixTokens(i) ==
    LET P == Positions("prefix", i - 1)
    IN  [j \in 1..Cardinality(P) |-> result[1][Min(P) + j - 1]]

AllGptPrefixed(text) ==
    \A i \in GptTurns :
        /\ calls[i].ret = text
        /\ PrefixTokens(i) = tokenize_fn(text)

\* C10 as stated: for openchat_v2 the group is 1 iff every gpt turn was
\* prefixed with "Assistant GPT4:" and 0 iff every gpt turn was prefixed
\* with "Assistant GPT3:".
C10_AsStated ==
    (pc = "done" /\ cfg = OpenChatV2) =>
        /\ result[3] = 1 <=> AllGptPrefixed("Assistant GPT4:")
        /\ result[3] = 0 <=> AllGptPrefixed("Assistant GPT3:")

\* C10 amended: for openchat_v2 the group is 0 or 1; group 1 means every gpt
\* turn was prefixed with "Assistant GPT4:", group 0 means every gpt turn was
\* prefixed with "Assistant GPT3:", and for a message_list with at least one
\* gpt turn the converses hold as well.
C10_GroupMatchesPrefix ==
    (pc = "done" /\ cfg = OpenChatV2) =>
        /\ result[3] \in {0, 1}
        /\ result[3] = 1 => AllGptPrefixed("Assistant GPT4:")
        /\ result[3] = 0 => AllGptPrefixed("Assistant GPT3:")
        /\ GptTurns /= {} =>
             /\ AllGptPrefixed("Assistant GPT4:") => result[3] = 1
             /\ AllGptPrefixed("Assistant GPT3:") => result[3] = 0

C10_Witness ==
    /\ pc = "done" /\ cfg = OpenChatV2
    /\ Cardinality(GptTurns) = 2
    /\ message_props.present /\ ~message_props.is_gpt4
    /\ result[3] = 0
    /\ AllGptPrefixed("Assistant GPT3:")

====
